---- MODULE Spec2Model ----
(***************************************************************************)
(* ata2: the interactive streaming session.                                *)
(*   - the text normalizer of prompt.rs (fix_newlines and its helpers),    *)
(*   - the input task of readline.rs (Readline::handle),                   *)
(*   - the response cycle of prompt.rs (request),                          *)
(*   - the session loop that joins the two over the handoff channel.       *)
(* Strings are sequences of one-character strings.                         *)
(***************************************************************************)
EXTENDS Integers, Sequences, FiniteSets, TLC

(* ------------------------------ bounds --------------------------------- *)
\* longest fragment text given to the normalizer on its own
MaxFragLen == 2
\* most fragments given to the normalizer on its own
MaxCalls == 3
\* most reads the input task performs in one run
MaxReads == 3
\* most items one response stream yields before it closes
MaxItems == 2

(* ----------------------------- characters ------------------------------ *)
BS == "\\"
N == "n"
X == "x"
NL == "LF"

Alphabet == {BS, N, X}

(* ------------------------------ variables ------------------------------ *)
VARIABLES
    isTty,                \* atty::is(Stdin)
    double_ctrlc,         \* config.ui.double_ctrlc
    ABORT,                \* crate::ABORT
    HAD_FIRST_INTERRUPT,  \* crate::HAD_FIRST_INTERRUPT
    is_running,           \* the flag request() receives as is_running
    chan,                 \* messages in the handoff channel, oldest first
    rlLock,               \* holder of the line-editor mutex
    ppc,                  \* position of the input task
    already_read,         \* local of the input task
    line,                 \* the message the input task is about to send
    history,              \* arguments of add_history_entry, in call order
    readLog,              \* kind of every read result so far, in order
    sent,                 \* every message whose send completed, in order
    cpc,                  \* position of the session loop / request()
    prompt,               \* the line request() was called with
    print_buffer,         \* local of request(): the normalizer buffer
    got_first_success,    \* local of request()
    ret,                  \* local of request(): completions received
    cur,                  \* choices of the current completion not yet visited
    items,                \* stream items consumed in the current cycle
    out,                  \* text request() printed on stdout in the cycle
    nlPrinted,            \* closing newlines printed on stdout in the cycle
    prompts,              \* calls of print_prompt made by the cycle
    finErr,               \* a non-stop finish reason was reported in the cycle
    xportErr,             \* a stream error was reported in the cycle
    started,              \* lines for which request() was called, in order
    ended,                \* calls of request() that returned
    result,               \* value the call of request() returned with Ok
    outcome,              \* "ok" or "err" once the call has returned
    nIn,                  \* fragments given to the normalizer on its own
    nOut                  \* strings it emitted, one per fragment

cfgvars == <<isTty, double_ctrlc>>
pvars == <<ppc, already_read, line, history, readLog, sent,
           HAD_FIRST_INTERRUPT>>
cvars == <<cpc, prompt, got_first_success, ret, cur, items, out, nlPrinted,
           finErr, xportErr, started, ended, result, outcome, is_running,
           prompts>>
nvars == <<nIn, nOut>>
vars == <<cfgvars, pvars, cvars, nvars, ABORT, chan, rlLock, print_buffer>>

(* --------------------------- text normalizer --------------------------- *)
RECURSIVE Join(_)
\* Vec<String>::join("")
Join(ss) == IF ss = <<>> THEN <<>> ELSE Head(ss) \o Join(Tail(ss))

RECURSIVE ReplaceBsN(_)
\* str::replace("\\n", "\n"): leftmost matches, not overlapping
ReplaceBsN(s) ==
    IF Len(s) < 2 THEN s
    ELSE IF s[1] = BS /\ s[2] = N
         THEN <<NL>> \o ReplaceBsN(SubSeq(s, 3, Len(s)))
         ELSE <<s[1]>> \o ReplaceBsN(Tail(s))

\* str::ends_with(r#"\"#)
EndsWithBackslash(text) == Len(text) > 0 /\ text[Len(text)] = BS

store_and_do_nothing(buf, text) ==
    [buf |-> Append(buf, text), emit |-> <<>>]

\* join_and_clear without the replacement
join_and_clear_noreplace(buf, text) ==
    [buf |-> <<>>, emit |-> Join(buf) \o text]

join_and_clear(buf, text) ==
    [buf |-> <<>>, emit |-> ReplaceBsN(Join(buf) \o text)]

fix_newlines(buf, text) ==
    IF EndsWithBackslash(text) THEN store_and_do_nothing(buf, text)
    ELSE IF buf # <<>> THEN join_and_clear(buf, text)
    ELSE [buf |-> buf, emit |-> text]

post_process(buf, text) == fix_newlines(buf, text)

(* ------------------------- messages and items -------------------------- *)
\* Option<String> carried by the channel
None == [tag |-> "None", text |-> <<>>]
Some(l) == [tag |-> "Some", text |-> l]

\* lines the terminal can deliver (String::is_empty holds of <<>>)
Lines == {<<"a">>, <<"b">>, <<" ">>}
\* whole contents of a piped standard input
PipedInputs == {<<>>, <<"p", "i", "n", "g">>}

RECURSIVE TrimStart(_)
TrimStart(s) == IF s # <<>> /\ Head(s) = " " THEN TrimStart(Tail(s)) ELSE s
RECURSIVE TrimEnd(_)
TrimEnd(s) ==
    IF s # <<>> /\ s[Len(s)] = " " THEN TrimEnd(SubSeq(s, 1, Len(s) - 1)) ELSE s
\* str::trim
Trim(s) == TrimEnd(TrimStart(s))

\* one choice of a streamed completion: finish_reason and delta.content
\* (content is <<>> for None and <<text>> for Some(text))
Txt(t) == [finish_reason |-> "None", content |-> <<t>>]
NoTxt == [finish_reason |-> "None", content |-> <<>>]
Fin(r) == [finish_reason |-> r, content |-> <<>>]

\* the choices of the completions a stream can yield
Completions ==
    { <<Txt(<<X>>)>>, <<Txt(<<X, BS>>)>>, <<NoTxt>>,
      <<Fin("Stop")>>, <<Fin("Length")>>, <<>>,
      <<Txt(<<X>>), Txt(<<N>>)>> }

RECURSIVE Flatten(_)
\* the choices of all completions, in order
Flatten(cs) == IF cs = <<>> THEN <<>> ELSE Head(cs) \o Flatten(Tail(cs))

(* ------------------------------- Init ---------------------------------- *)
InitShared ==
    /\ ABORT = FALSE
    /\ HAD_FIRST_INTERRUPT = FALSE
    /\ is_running = FALSE
    /\ chan = <<>>
    /\ rlLock = "free"
    /\ ppc = "top"
    /\ already_read = FALSE
    /\ line = None
    /\ history = <<>>
    /\ readLog = <<>>
    /\ sent = <<>>
    /\ cpc = "recv"
    /\ prompt = <<>>
    /\ print_buffer = <<>>
    /\ got_first_success = FALSE
    /\ ret = <<>>
    /\ cur = <<>>
    /\ items = 0
    /\ out = <<>>
    /\ nlPrinted = 0
    /\ prompts = 0
    /\ finErr = FALSE
    /\ xportErr = FALSE
    /\ started = <<>>
    /\ ended = 0
    /\ result = <<>>
    /\ outcome = "none"
    /\ nIn = <<>>
    /\ nOut = <<>>

Init ==
    /\ isTty \in BOOLEAN
    /\ double_ctrlc \in BOOLEAN
    /\ InitShared

(* ------------------- the input task: Readline::handle ------------------- *)
\* mpsc::channel capacity of the handoff channel
ChannelCapacity == 1

\* end of one pass of the loop body: the MutexGuard rl is dropped
EndPass(next) ==
    /\ ppc' = next
    /\ rlLock' = "free"

\* while !ABORT.load() { let mut rl = rl.lock().await; ...
P_LoopTop ==
    /\ ppc = "top"
    /\ IF ABORT
       THEN /\ ppc' = "done"
            /\ UNCHANGED rlLock
       ELSE /\ rlLock = "free"
            /\ rlLock' = "input"
            /\ ppc' = "read"
    /\ UNCHANGED <<cfgvars, cvars, nvars, ABORT, chan, print_buffer,
                   already_read, line, history, readLog, sent,
                   HAD_FIRST_INTERRUPT>>

\* the Ok(line) arm without `if line.is_empty() { continue; }`
OnLine_NoEmptyTest(l) ==
    /\ readLog' = Append(readLog, IF l = <<>> THEN "empty" ELSE "line")
    /\ history' = Append(history, l)
    /\ line' = Some(l)
    /\ ppc' = "sendLine"
    /\ UNCHANGED <<rlLock, HAD_FIRST_INTERRUPT>>

\* the Ok(line) arm without rl.add_history_entry(line.as_str())
OnLine_NoHistory(l) ==
    /\ readLog' = Append(readLog, IF l = <<>> THEN "empty" ELSE "line")
    /\ IF l = <<>>
       THEN /\ EndPass("top")
            /\ UNCHANGED line
       ELSE /\ line' = Some(l)
            /\ ppc' = "sendLine"
            /\ UNCHANGED rlLock
    /\ UNCHANGED <<history, HAD_FIRST_INTERRUPT>>

\* match readline { Ok(line) => ... }
OnLine(l) ==
    /\ readLog' = Append(readLog, IF l = <<>> THEN "empty" ELSE "line")
    /\ IF l = <<>>
       THEN /\ EndPass("top")
            /\ UNCHANGED <<history, line>>
       ELSE /\ history' = Append(history, l)
            /\ line' = Some(l)
            /\ ppc' = "sendLine"
            /\ UNCHANGED rlLock
    /\ UNCHANGED HAD_FIRST_INTERRUPT

\* the Interrupted arm when the flag is not consulted
OnInterrupted_IgnoreFlag ==
    /\ readLog' = Append(readLog, "int")
    /\ IF double_ctrlc
       THEN /\ HAD_FIRST_INTERRUPT' = TRUE
            /\ EndPass("top")
            /\ UNCHANGED line
       ELSE /\ line' = None
            /\ ppc' = "sendNoneInt"
            /\ UNCHANGED <<HAD_FIRST_INTERRUPT, rlLock>>
    /\ UNCHANGED history

\* the Interrupted arm when config.ui.double_ctrlc is not consulted
OnInterrupted_IgnoreConfig ==
    /\ readLog' = Append(readLog, "int")
    /\ IF ~HAD_FIRST_INTERRUPT
       THEN /\ HAD_FIRST_INTERRUPT' = TRUE
            /\ EndPass("top")
            /\ UNCHANGED line
       ELSE /\ line' = None
            /\ ppc' = "sendNoneInt"
            /\ UNCHANGED <<HAD_FIRST_INTERRUPT, rlLock>>
    /\ UNCHANGED history

\* Err(ReadlineError::Interrupted) => ...
OnInterrupted ==
    /\ readLog' = Append(readLog, "int")
    /\ IF double_ctrlc /\ ~HAD_FIRST_INTERRUPT
       THEN /\ HAD_FIRST_INTERRUPT' = TRUE
            /\ EndPass("top")
            /\ UNCHANGED line
       ELSE /\ line' = None
            /\ ppc' = "sendNoneInt"
            /\ UNCHANGED <<HAD_FIRST_INTERRUPT, rlLock>>
    /\ UNCHANGED history

\* the Eof arm without HAD_FIRST_INTERRUPT.store(false)
OnEof_KeepFlag ==
    /\ readLog' = Append(readLog, "eof")
    /\ line' = None
    /\ ppc' = "sendNoneEof"
    /\ UNCHANGED <<history, rlLock, HAD_FIRST_INTERRUPT>>

\* Err(ReadlineError::Eof) => ...
OnEof ==
    /\ readLog' = Append(readLog, "eof")
    /\ HAD_FIRST_INTERRUPT' = FALSE
    /\ line' = None
    /\ ppc' = "sendNoneEof"
    /\ UNCHANGED <<history, rlLock>>

\* the Err(err) arm clearing the flag as the Eof arm does
OnOtherErr_ClearFlag ==
    /\ readLog' = Append(readLog, "err")
    /\ HAD_FIRST_INTERRUPT' = FALSE
    /\ line' = None
    /\ ppc' = "sendNoneErr"
    /\ UNCHANGED <<history, rlLock>>

\* Err(err) => ...
OnOtherErr ==
    /\ readLog' = Append(readLog, "err")
    /\ line' = None
    /\ ppc' = "sendNoneErr"
    /\ UNCHANGED <<history, rlLock, HAD_FIRST_INTERRUPT>>

\* rl.readline("") on a terminal
P_ReadTty ==
    /\ ppc = "read"
    /\ isTty
    /\ Len(readLog) < MaxReads
    /\ \/ \E l \in Lines \cup {<<>>} : OnLine(l)
       \/ OnInterrupted
       \/ OnEof
       \/ OnOtherErr
    /\ UNCHANGED <<cfgvars, cvars, nvars, ABORT, chan, print_buffer,
                   already_read, sent>>

\* the early return of a `?` in the loop body: the task ends with Err
FailTask(kind) ==
    /\ ppc' = "failed"
    /\ rlLock' = "free"
    /\ readLog' = Append(readLog, kind)

\* standard input is not a terminal
P_ReadPiped ==
    /\ ppc = "read"
    /\ ~isTty
    /\ Len(readLog) < MaxReads
    /\ IF ~already_read
       THEN \/ \E buf \in PipedInputs :
                 /\ already_read' = TRUE
                 /\ OnLine(buf)
            \/ /\ FailTask("ioerr")
               /\ UNCHANGED <<already_read, line, history,
                              HAD_FIRST_INTERRUPT>>
       ELSE /\ FailTask("pipe_end")
            /\ UNCHANGED <<already_read, line, history, HAD_FIRST_INTERRUPT>>
    /\ UNCHANGED <<cfgvars, cvars, nvars, ABORT, chan, print_buffer, sent>>

\* a send that does not wait for a free slot
SendCompletes_NoWait(m) ==
    /\ chan' = Append(chan, m)
    /\ sent' = Append(sent, m)

\* Sender::send(m).await completes once the channel has a free slot
SendCompletes(m) ==
    /\ Len(chan) < ChannelCapacity
    /\ chan' = Append(chan, m)
    /\ sent' = Append(sent, m)

\* the Receiver of the handoff channel has been dropped
ReceiverGone == cpc = "gone"

\* a failed send after which the loop goes on to its next pass
SendFails_LoopOn ==
    /\ EndPass("top")
    /\ UNCHANGED <<chan, sent>>

\* tx.send(..).await? when send returns Err: the `?` returns it from the task
SendFails ==
    /\ ppc' = "failed"
    /\ rlLock' = "free"
    /\ UNCHANGED <<chan, sent>>

\* the Ok(line) arm without HAD_FIRST_INTERRUPT.store(false)
P_SendLine_KeepFlag ==
    /\ ppc = "sendLine"
    /\ SendCompletes(line)
    /\ EndPass("top")
    /\ UNCHANGED <<cfgvars, cvars, nvars, ABORT, print_buffer,
                   already_read, line, history, readLog,
                   HAD_FIRST_INTERRUPT>>

\* tx.send(Some(line)).await?; HAD_FIRST_INTERRUPT.store(false)
P_SendLine ==
    /\ ppc = "sendLine"
    /\ IF ReceiverGone
       THEN /\ SendFails
            /\ UNCHANGED HAD_FIRST_INTERRUPT
       ELSE /\ SendCompletes(line)
            /\ HAD_FIRST_INTERRUPT' = FALSE
            /\ EndPass("top")
    /\ UNCHANGED <<cfgvars, cvars, nvars, ABORT, print_buffer,
                   already_read, line, history, readLog>>

\* the Interrupted arm storing ABORT before its send has completed
P_SendNoneInt_AbortFirst ==
    /\ ppc = "sendNoneInt"
    /\ ~ABORT
    /\ ABORT' = TRUE
    /\ UNCHANGED <<cfgvars, cvars, nvars, chan, print_buffer, rlLock, ppc,
                   already_read, line, history, readLog, sent,
                   HAD_FIRST_INTERRUPT>>

\* tx.send(None).await? of the Interrupted arm
P_SendNoneInt ==
    /\ ppc = "sendNoneInt"
    /\ IF ReceiverGone
       THEN SendFails
       ELSE /\ SendCompletes(None)
            /\ ppc' = "storeAbort"
            /\ UNCHANGED rlLock
    /\ UNCHANGED <<cfgvars, cvars, nvars, ABORT, print_buffer,
                   already_read, line, history, readLog,
                   HAD_FIRST_INTERRUPT>>

\* ABORT.store(true); break, with the MutexGuard kept alive
P_StoreAbort_KeepLock ==
    /\ ppc = "storeAbort"
    /\ ABORT' = TRUE
    /\ ppc' = "done"
    /\ UNCHANGED <<cfgvars, cvars, nvars, chan, print_buffer, rlLock,
                   already_read, line, history, readLog, sent,
                   HAD_FIRST_INTERRUPT>>

\* ABORT.store(true); break
P_StoreAbort ==
    /\ ppc = "storeAbort"
    /\ ABORT' = TRUE
    /\ EndPass("done")
    /\ UNCHANGED <<cfgvars, cvars, nvars, chan, print_buffer,
                   already_read, line, history, readLog, sent,
                   HAD_FIRST_INTERRUPT>>

\* the Eof and Err(err) arms without their break
P_SendNoneEnd_NoBreak ==
    /\ ppc \in {"sendNoneEof", "sendNoneErr"}
    /\ SendCompletes(None)
    /\ EndPass("top")
    /\ UNCHANGED <<cfgvars, cvars, nvars, ABORT, print_buffer,
                   already_read, line, history, readLog,
                   HAD_FIRST_INTERRUPT>>

\* tx.send(None).await?; break  of the Eof and Err(err) arms
P_SendNoneEnd ==
    /\ ppc \in {"sendNoneEof", "sendNoneErr"}
    /\ IF ReceiverGone
       THEN SendFails
       ELSE /\ SendCompletes(None)
            /\ EndPass("done")
    /\ UNCHANGED <<cfgvars, cvars, nvars, ABORT, print_buffer,
                   already_read, line, history, readLog,
                   HAD_FIRST_INTERRUPT>>

\* the input task has ended and its Sender is dropped
SenderDropped == ppc \in {"done", "failed"}

(* ----------------------------- session loop ----------------------------- *)
\* receive one LineMessage: None ends the loop, a line that is empty after
\* trimming is reported without a request, any other line starts a cycle
S_Recv ==
    /\ cpc = "recv"
    /\ chan # <<>>
    /\ chan' = Tail(chan)
    /\ IF Head(chan) = None
       THEN /\ cpc' = "closing"
            /\ UNCHANGED <<prompt, started>>
       ELSE IF Trim(Head(chan).text) = <<>>
       THEN UNCHANGED <<cpc, prompt, started>>
       ELSE /\ cpc' = "create"
            /\ prompt' = Head(chan).text
            /\ started' = Append(started, Head(chan).text)
    /\ UNCHANGED <<cfgvars, pvars, nvars, ABORT, rlLock, print_buffer,
                   got_first_success, ret, cur, items, out, nlPrinted,
                   finErr, xportErr, ended, result, outcome, is_running, prompts>>

\* the channel is empty and its only Sender is gone: nothing more arrives
S_RecvClosed ==
    /\ cpc = "recv"
    /\ chan = <<>>
    /\ SenderDropped
    /\ cpc' = "closing"
    /\ UNCHANGED <<cfgvars, pvars, nvars, ABORT, chan, rlLock, print_buffer,
                   prompt, got_first_success, ret, cur, items, out,
                   nlPrinted, finErr, xportErr, started, ended, result,
                   outcome, is_running, prompts>>

\* Readline::save_history on termination: lock, one operation, unlock
S_SaveHistory ==
    /\ cpc = "closing"
    /\ rlLock = "free"
    /\ cpc' = "done"
    /\ UNCHANGED <<cfgvars, pvars, nvars, ABORT, chan, rlLock, print_buffer,
                   prompt, got_first_success, ret, cur, items, out,
                   nlPrinted, finErr, xportErr, started, ended, result,
                   outcome, is_running, prompts>>

\* request() has returned: the loop goes back to waiting for a message
\* (what the finished cycle printed and returned is forgotten here)
S_Returned ==
    /\ cpc = "returned"
    /\ cpc' = "recv"
    /\ prompt' = <<>>
    /\ items' = 0
    /\ out' = <<>>
    /\ nlPrinted' = 0
    /\ prompts' = 0
    /\ finErr' = FALSE
    /\ xportErr' = FALSE
    /\ result' = <<>>
    /\ outcome' = "none"
    /\ UNCHANGED <<cfgvars, pvars, nvars, ABORT, chan, rlLock, print_buffer,
                   got_first_success, ret, cur, started, ended, is_running>>

(* ----------------------- the response cycle: request -------------------- *)
\* finish_prompt without is_running.store(false)
finish_prompt_NoStore ==
    /\ is_running' = is_running
    /\ prompts' = prompts + 1

\* finish_prompt: is_running.store(false), then print_prompt()
finish_prompt ==
    /\ is_running' = FALSE
    /\ prompts' = prompts + 1

\* print_error that does not go on to finish_prompt
print_error_NoPrompt ==
    /\ is_running' = is_running
    /\ prompts' = prompts

\* print_error: the message on the log, then finish_prompt
print_error == finish_prompt

\* the locals of request() go out of scope when it returns
DropLocals ==
    /\ print_buffer' = <<>>
    /\ got_first_success' = FALSE
    /\ ret' = <<>>
    /\ cur' = <<>>

\* lines 122-149: the stream is created, or a `?` returns the error
R_Create ==
    /\ cpc = "create"
    /\ \/ /\ is_running' = TRUE
          /\ print_buffer' = <<>>
          /\ got_first_success' = FALSE
          /\ ret' = <<>>
          /\ cur' = <<>>
          /\ items' = 0
          /\ out' = <<>>
          /\ nlPrinted' = 0
          /\ prompts' = 0
          /\ finErr' = FALSE
          /\ xportErr' = FALSE
          /\ cpc' = "loopTop"
          /\ UNCHANGED <<ended, result, outcome>>
       \/ /\ cpc' = "returned"
          /\ ended' = ended + 1
          /\ outcome' = "err"
          /\ UNCHANGED <<is_running, prompts, print_buffer, got_first_success, ret,
                         cur, items, out, nlPrinted, finErr, xportErr,
                         result>>
    /\ UNCHANGED <<cfgvars, pvars, nvars, ABORT, chan, rlLock, prompt,
                   started>>

\* 'abort: while !abort.load() { ... }
R_LoopTop ==
    /\ cpc = "loopTop"
    /\ cpc' = IF ABORT THEN "after" ELSE "next"
    /\ UNCHANGED <<cfgvars, pvars, nvars, ABORT, chan, rlLock, print_buffer,
                   prompt, got_first_success, ret, cur, items, out,
                   nlPrinted, finErr, xportErr, started, ended, result,
                   outcome, is_running, prompts>>

\* 'outer: while let Some(completion) = stream.next().await { match ... }
R_Next ==
    /\ cpc = "next"
    /\ \/ \* Some(Ok(completion))
          /\ items < MaxItems
          /\ \E c \in Completions :
                /\ ret' = Append(ret, c)
                /\ cur' = c
                /\ cpc' = IF c = <<>> THEN "next" ELSE "choice"
          /\ items' = items + 1
          /\ got_first_success' = TRUE
          /\ UNCHANGED <<is_running, prompts, xportErr>>
       \/ \* Some(Err(e)): print_error, continue 'abort
          /\ items < MaxItems
          /\ items' = items + 1
          /\ print_error
          /\ xportErr' = TRUE
          /\ cpc' = "loopTop"
          /\ UNCHANGED <<ret, cur, got_first_success>>
       \/ \* None: the stream is over, break 'abort
          /\ cpc' = "after"
          /\ UNCHANGED <<ret, cur, got_first_success, items, is_running, prompts,
                         xportErr>>
    /\ UNCHANGED <<cfgvars, pvars, nvars, ABORT, chan, rlLock, print_buffer,
                   prompt, out, nlPrinted, finErr, started, ended, result,
                   outcome>>

\* the body without the Some(FinishReason::Stop) arm
ChoiceBody_NoStopArm ==
    /\ LET choice == Head(cur) IN
       IF choice.finish_reason \notin {"None", "Stop"}
       THEN /\ print_error
            /\ finErr' = TRUE
            /\ cpc' = "loopTop"
            /\ UNCHANGED <<cur, print_buffer, out>>
       ELSE IF choice.content # <<>>
       THEN LET r == post_process(print_buffer, choice.content[1]) IN
            /\ print_buffer' = r.buf
            /\ out' = out \o r.emit
            /\ cur' = Tail(cur)
            /\ cpc' = IF Tail(cur) = <<>> THEN "next" ELSE "choice"
            /\ UNCHANGED <<finErr, is_running, prompts>>
       ELSE /\ cpc' = "next"
            /\ UNCHANGED <<cur, print_buffer, out, finErr, is_running, prompts>>
    /\ UNCHANGED <<cfgvars, pvars, nvars, ABORT, chan, rlLock, prompt,
                   got_first_success, ret, items, nlPrinted, xportErr,
                   started, ended, result, outcome>>

\* match choice.finish_reason { ... } match choice.delta.content { ... }
ChoiceBody ==
    /\ LET choice == Head(cur) IN
       IF choice.finish_reason = "Stop"
       THEN /\ cpc' = "after"
            /\ UNCHANGED <<cur, print_buffer, out, finErr, is_running, prompts>>
       ELSE IF choice.finish_reason # "None"
       THEN /\ print_error
            /\ finErr' = TRUE
            /\ cpc' = "loopTop"
            /\ UNCHANGED <<cur, print_buffer, out>>
       ELSE IF choice.content # <<>>
       THEN LET r == post_process(print_buffer, choice.content[1]) IN
            /\ print_buffer' = r.buf
            /\ out' = out \o r.emit
            /\ cur' = Tail(cur)
            /\ cpc' = IF Tail(cur) = <<>> THEN "next" ELSE "choice"
            /\ UNCHANGED <<finErr, is_running, prompts>>
       ELSE /\ cpc' = "next"
            /\ UNCHANGED <<cur, print_buffer, out, finErr, is_running, prompts>>
    /\ UNCHANGED <<cfgvars, pvars, nvars, ABORT, chan, rlLock, prompt,
                   got_first_success, ret, items, nlPrinted, xportErr,
                   started, ended, result, outcome>>

\* the pass without `if abort.load() { break 'abort; }`
R_Choice_NoAbortTest ==
    /\ cpc = "choice"
    /\ ChoiceBody

\* one pass of `for choice in &completion.choices { ... }`
R_Choice ==
    /\ cpc = "choice"
    /\ IF ABORT
       THEN /\ cpc' = "after"
            /\ UNCHANGED <<cfgvars, pvars, nvars, ABORT, chan, rlLock,
                           print_buffer, prompt, got_first_success, ret,
                           cur, items, out, nlPrinted, finErr, xportErr,
                           started, ended, result, outcome, is_running, prompts>>
       ELSE ChoiceBody

\* the return that keeps nothing of a cycle in which an error was reported
R_Finish_DropOnError ==
    /\ cpc = "after"
    /\ IF ~got_first_success
       THEN /\ print_error
            /\ result' = <<>>
            /\ UNCHANGED nlPrinted
       ELSE /\ nlPrinted' = nlPrinted + 1
            /\ result' = IF finErr \/ xportErr THEN <<>> ELSE Flatten(ret)
            /\ finish_prompt
    /\ DropLocals
    /\ ended' = ended + 1
    /\ outcome' = "ok"
    /\ cpc' = "returned"
    /\ UNCHANGED <<cfgvars, pvars, nvars, ABORT, chan, rlLock, prompt,
                   items, out, finErr, xportErr, started>>

\* lines 199-222: the empty notice, or the closing newline and the result
R_Finish ==
    /\ cpc = "after"
    /\ IF ~got_first_success
       THEN /\ print_error
            /\ result' = <<>>
            /\ UNCHANGED nlPrinted
       ELSE /\ nlPrinted' = nlPrinted + 1
            /\ result' = Flatten(ret)
            /\ finish_prompt
    /\ DropLocals
    /\ ended' = ended + 1
    /\ outcome' = "ok"
    /\ cpc' = "returned"
    /\ UNCHANGED <<cfgvars, pvars, nvars, ABORT, chan, rlLock, prompt,
                   items, out, finErr, xportErr, started>>

(* --------------------------- the session spec --------------------------- *)
Next ==
    \/ P_LoopTop
    \/ P_ReadTty
    \/ P_ReadPiped
    \/ P_SendLine
    \/ P_SendNoneInt
    \/ P_StoreAbort
    \/ P_SendNoneEnd
    \/ S_Recv
    \/ S_RecvClosed
    \/ S_SaveHistory
    \/ S_Returned
    \/ R_Create
    \/ R_LoopTop
    \/ R_Next
    \/ R_Choice
    \/ R_Finish

Spec == Init /\ [][Next]_vars

(* ---------------------- the normalizer on its own ----------------------- *)
RECURSIVE StringsUpTo(_)
\* all strings over Alphabet of length at most n
StringsUpTo(n) ==
    IF n = 0 THEN {<<>>}
    ELSE LET shorter == StringsUpTo(n - 1) IN
         shorter \cup {Append(s, c) : s \in shorter, c \in Alphabet}

Fragments == StringsUpTo(MaxFragLen)

InitNorm ==
    /\ isTty = TRUE
    /\ double_ctrlc = TRUE
    /\ InitShared

\* one call post_process(&mut print_buffer, text)
N_Process ==
    /\ Len(nIn) < MaxCalls
    /\ \E text \in Fragments :
          LET r == post_process(print_buffer, text) IN
          /\ print_buffer' = r.buf
          /\ nIn' = Append(nIn, text)
          /\ nOut' = Append(nOut, r.emit)
    /\ UNCHANGED <<cfgvars, pvars, cvars, ABORT, chan, rlLock>>

NextNorm == N_Process

SpecNorm == InitNorm /\ [][NextNorm]_vars

(* ============================== properties ============================== *)
Last(q) == q[Len(q)]

IsPrefix(p, q) == Len(p) <= Len(q) /\ SubSeq(q, 1, Len(p)) = p

RECURSIVE IntrRun(_)
\* interrupts read since the latest non-empty line
IntrRun(log) ==
    IF log = <<>> \/ Last(log) = "line" THEN 0
    ELSE IntrRun(SubSeq(log, 1, Len(log) - 1))
         + (IF Last(log) = "int" THEN 1 ELSE 0)

\* this step reads an interrupt
ReadsInterrupt == Len(readLog') = Len(readLog) + 1 /\ Last(readLog') = "int"

\* request() is between the creation of its stream and its return
InCycle == cpc \in {"loopTop", "next", "choice", "after"}

(* ----------------------------------------------------------------------- *)
\* C1: whenever nothing is held back in the buffer, the concatenation of the
\* emitted strings equals the concatenation of the fragments with every
\* backslash+n pair replaced by a newline, whatever the fragment boundaries.
C1_Claim ==
    print_buffer = <<>> => Join(nOut) = ReplaceBsN(Join(nIn))

(* ----------------------------------------------------------------------- *)
\* C2 as stated: a fragment ending in a backslash emits nothing, and the next
\* fragment, when it starts with n, emits the buffered text joined with it,
\* the pair turned into a newline.
C2_Claim ==
    [][ ( /\ Len(nIn') = Len(nIn) + 1
          /\ nIn # <<>>
          /\ EndsWithBackslash(Last(nIn))
          /\ Last(nIn') # <<>>
          /\ Head(Last(nIn')) = N )
        => ( /\ Last(nOut) = <<>>
             /\ Last(nOut') = ReplaceBsN(Join(print_buffer) \o Last(nIn')) )
      ]_vars

\* C2 amended: the same, for a next fragment that starts with n and does not
\* itself end in a backslash; fragments "x\", "n", "x" yield x, newline, x.
C2_Amended ==
    /\ [][ ( /\ Len(nIn') = Len(nIn) + 1
             /\ nIn # <<>>
             /\ EndsWithBackslash(Last(nIn))
             /\ Last(nIn') # <<>>
             /\ Head(Last(nIn')) = N
             /\ ~EndsWithBackslash(Last(nIn')) )
           => ( /\ Last(nOut) = <<>>
                /\ print_buffer # <<>>
                /\ Last(nOut') = ReplaceBsN(Join(print_buffer) \o Last(nIn'))
                /\ Last(nOut')[Len(ReplaceBsN(Join(print_buffer)))] = NL
                /\ print_buffer' = <<>> )
         ]_vars
    /\ [](nIn = << <<X, BS>>, <<N>>, <<X>> >> => Join(nOut) = <<X, NL, X>>)

C2_Witness ==
    /\ nIn = << <<X, BS>>, <<N>>, <<X>> >>
    /\ nOut = << <<>>, <<X, NL>>, <<X>> >>

(* ----------------------------------------------------------------------- *)
\* C3: when a response cycle ends, the text still held in the normalizer
\* buffer is printed verbatim, so nothing received is left unprinted.
C3_Claim ==
    [][ (cpc = "after" /\ cpc' = "returned")
        => out' = out \o Join(print_buffer) ]_vars

(* ----------------------------------------------------------------------- *)
\* C4: with double_ctrlc, an interrupt read while pending_interrupt is false
\* sends nothing, leaves abort false, sets pending_interrupt and keeps the
\* loop running; a second interrupt with no line submitted in between makes
\* the task send None, then set abort, then stop.
C4_Thm ==
    [][ /\ (ReadsInterrupt /\ double_ctrlc /\ ~HAD_FIRST_INTERRUPT)
           => ( /\ sent' = sent /\ chan' = chan
                /\ ~ABORT /\ ~ABORT'
                /\ HAD_FIRST_INTERRUPT'
                /\ ppc' = "top" )
        /\ (ReadsInterrupt /\ double_ctrlc /\ IntrRun(readLog) >= 1)
           => (ppc' = "sendNoneInt" /\ sent' = sent /\ ~ABORT')
        /\ (ppc = "sendNoneInt" /\ ppc' # ppc)
           => ( /\ sent' = Append(sent, None)
                /\ ppc' = "storeAbort"
                /\ ~ABORT' )
        /\ (ppc = "storeAbort" /\ ppc' # ppc)
           => (ABORT' /\ ppc' = "done" /\ sent' = sent)
        /\ ppc = "done" => ppc' = "done"
      ]_vars

C4_Witness ==
    /\ double_ctrlc
    /\ readLog = <<"int", "int">>
    /\ ppc = "done"
    /\ ABORT
    /\ sent = <<None>>

(* ----------------------------------------------------------------------- *)
\* C5: with double_ctrlc, pending_interrupt is clear once a line has been
\* submitted, so that None is sent for an interrupt, and abort set, only
\* after two interrupts read since the latest submitted line.
C5_Thm ==
    double_ctrlc =>
        /\ (IntrRun(readLog) = 0 /\ ppc # "sendLine") => ~HAD_FIRST_INTERRUPT
        /\ (ppc = "top" /\ IntrRun(readLog) = 1) => HAD_FIRST_INTERRUPT
        /\ (ppc \in {"sendNoneInt", "storeAbort"} \/ ABORT)
              => IntrRun(readLog) >= 2
        /\ (IntrRun(readLog) < 2 /\ \A k \in 1..Len(readLog) :
                                        ~(readLog[k] \in {"eof", "err"}))
              => \A i \in 1..Len(sent) : sent[i] # None

C5_Witness ==
    /\ double_ctrlc
    /\ readLog = <<"int", "line", "int">>
    /\ sent = <<Some(<<"a">>)>>
    /\ ppc = "top"
    /\ HAD_FIRST_INTERRUPT
    /\ ~ABORT

(* ----------------------------------------------------------------------- *)
\* the lines of the messages ms for which the session loop starts a cycle
RECURSIVE CycleLines(_)
CycleLines(ms) ==
    IF ms = <<>> THEN <<>>
    ELSE IF Head(ms) # None /\ Trim(Head(ms).text) # <<>>
         THEN <<Head(ms).text>> \o CycleLines(Tail(ms))
         ELSE CycleLines(Tail(ms))

\* C6: cycles are started in the order the lines were submitted, the cycle of
\* a line starts only after the cycle of the line before it has ended, at
\* most one cycle is in flight, and no send completes while the channel is
\* full.
C6_Thm ==
    /\ [] /\ IsPrefix(started, CycleLines(sent))
          /\ Len(started) - ended \in {0, 1}
          /\ (Len(started) - ended = 1) <=> (InCycle \/ cpc = "create")
          /\ Len(chan) <= ChannelCapacity
    /\ [][ /\ Len(started') > Len(started) => ended = Len(started)
           /\ Len(chan) = ChannelCapacity => sent' = sent ]_vars

C6_Witness ==
    /\ started = << <<"a">>, <<"b">> >>
    /\ ended = 1
    /\ cpc = "next"
    /\ chan = <<Some(<<"a">>)>>

(* ----------------------------------------------------------------------- *)
\* C7: None is only ever the last message sent: after it nothing is sent.
C7_Thm ==
    /\ [](\A i \in 1..(Len(sent) - 1) : sent[i] # None)
    /\ [][ (sent # <<>> /\ Last(sent) = None) => sent' = sent ]_vars

C7_Witness ==
    /\ Len(sent) = 3
    /\ sent[1] # None
    /\ sent[2] # None
    /\ sent[3] = None
    /\ ppc = "done"

C9_Thm ==
    [][ /\ (ABORT /\ InCycle) => out' = out
        /\ (ABORT /\ cpc \in {"choice", "loopTop"} /\ cpc' # cpc)
              => cpc' = "after"
        /\ (ABORT /\ cpc = "after" /\ cpc' # cpc /\ got_first_success)
              => ( /\ cpc' = "returned"
                   /\ nlPrinted' = nlPrinted + 1
                   /\ ~is_running' )
      ]_vars

\* the loop was left by the abort test with a text choice still unvisited
C9_Witness ==
    /\ ABORT
    /\ cpc = "after"
    /\ got_first_success
    /\ out # <<>>
    /\ cur # <<>>
    /\ Head(cur).finish_reason = "None"
    /\ Head(cur).content # <<>>

(* ----------------------------------------------------------------------- *)
\* C10: after a finish reason other than stop was reported, no later item of
\* the same stream is consumed or printed, and abort is left as it was.
C10_Claim ==
    [][ (finErr /\ finErr')
        => (items' = items /\ out' = out) ]_vars

(* ----------------------------------------------------------------------- *)
\* C11: after a stream error was reported, no later item of the same stream
\* is consumed or printed.
C11_Claim ==
    [][ (xportErr /\ xportErr')
        => (items' = items /\ out' = out) ]_vars

(* ----------------------------------------------------------------------- *)
\* this step reports a stream error or a finish reason other than stop
ReportsStreamError == cpc \in {"next", "choice"} /\ cpc' = "loopTop"

\* this step reports the empty response
ReportsEmpty == cpc = "after" /\ cpc' = "returned" /\ ~got_first_success

\* C12: a stream error, a finish reason other than stop and an empty response
\* are each reported with the prompt drawn again and abort left as it was,
\* and a call of request() that reported one returns Ok, after which the
\* session loop waits for the next message.
C12_Thm ==
    /\ [][ /\ (ReportsStreamError \/ ReportsEmpty)
              => (prompts' = prompts + 1 /\ ABORT' = ABORT)
           /\ ReportsEmpty => (outcome' = "ok" /\ result' = <<>>)
           /\ (cpc = "returned" /\ cpc' # cpc) => cpc' = "recv"
         ]_vars
    /\ []((cpc = "returned" /\ (xportErr \/ finErr))
             => (outcome = "ok" /\ prompts >= 2))

C12_Witness ==
    /\ cpc = "returned"
    /\ xportErr
    /\ finErr
    /\ outcome = "ok"
    /\ prompts = 3
    /\ ~ABORT

(* ----------------------------------------------------------------------- *)
\* C13: responding is true while the consumer reads the items of a stream
\* and false whenever no stream is being consumed.
C13_Claim ==
    /\ cpc \in {"next", "choice"} => is_running
    /\ ~InCycle => ~is_running

(* ----------------------------------------------------------------------- *)
\* C14: while abort is true no response stream is created.
C14_Claim ==
    [][ ABORT => ~(cpc = "create" /\ cpc' = "loopTop") ]_vars

(* ----------------------------------------------------------------------- *)
\* the inputs of the fair specification: one terminal line, and one
\* completion of each kind request() tells apart
LiveLines == {<<"a">>}
LiveCompletions == { <<Txt(<<X>>)>>, <<Fin("Stop")>>, <<Fin("Length")>> }

LiveInputs ==
    /\ \A i \in 1..Len(history) : history[i] \in LiveLines \cup PipedInputs
    /\ \A i \in 1..Len(ret) : ret[i] \in LiveCompletions

\* rl.readline("") delivering one of the lines above
L_ReadTty == P_ReadTty /\ LiveInputs'

\* stream.next().await delivering one of the completions above
L_Next == R_Next /\ LiveInputs'

\* the steps of the session loop and of request(): the consumer task is
\* polled whenever it can go on, and every stream item arrives or the
\* stream closes
ConsumerNext ==
    \/ S_Recv
    \/ S_RecvClosed
    \/ S_SaveHistory
    \/ S_Returned
    \/ R_Create
    \/ R_LoopTop
    \/ L_Next
    \/ R_Choice
    \/ R_Finish

\* the steps of the input task other than its reads (a read waits for the
\* user): the task is polled whenever its lock or its send can complete
ProducerProgress ==
    \/ P_LoopTop
    \/ P_SendLine
    \/ P_SendNoneInt
    \/ P_StoreAbort
    \/ P_SendNoneEnd

LiveNext ==
    \/ L_ReadTty
    \/ P_ReadPiped
    \/ ProducerProgress
    \/ ConsumerNext

FairSpec ==
    /\ Init
    /\ [][LiveNext]_vars
    /\ WF_vars(ConsumerNext)
    /\ WF_vars(ProducerProgress)

\* C15: once None has been sent, both tasks come to their end, and the
\* session loop ends only with the channel drained and with every cycle it
\* started for the lines sent before the None finished.
C15_Thm ==
    /\ (sent # <<>> /\ Last(sent) = None) ~> (cpc = "done" /\ ppc = "done")
    /\ []((cpc = "done" /\ sent # <<>> /\ Last(sent) = None)
            => ( /\ chan = <<>>
                 /\ started = CycleLines(sent)
                 /\ ended = Len(started) ))

C15_Witness ==
    /\ cpc = "done"
    /\ ppc = "done"
    /\ Len(sent) = 3
    /\ Last(sent) = None
    /\ ended = 2
    /\ rlLock = "free"

(* ----------------------------------------------------------------------- *)
\* C16: the input task does not hold the line-editor lock while it waits
\* for a send on the handoff channel to complete.
C16_Claim ==
    ppc \in {"sendLine", "sendNoneInt", "sendNoneEof", "sendNoneErr"}
        => rlLock # "input"

(* ----------------------------------------------------------------------- *)
\* this step reads a result of the given kind
Reads(kind) == Len(readLog') = Len(readLog) + 1 /\ Last(readLog') = kind

\* the texts of the Some messages among ms, in order
RECURSIVE SomeTexts(_)
SomeTexts(ms) ==
    IF ms = <<>> THEN <<>>
    ELSE IF Head(ms) # None
         THEN <<Head(ms).text>> \o SomeTexts(Tail(ms))
         ELSE SomeTexts(Tail(ms))

\* C17: reading an empty line sends nothing, adds nothing to the history,
\* starts no request, leaves pending_interrupt and abort as they were, and
\* takes the input task back to the top of its loop.
C17_Thm ==
    [][ Reads("empty")
        => ( /\ sent' = sent
             /\ chan' = chan
             /\ line' = line
             /\ history' = history
             /\ started' = started
             /\ cpc' = cpc
             /\ HAD_FIRST_INTERRUPT' = HAD_FIRST_INTERRUPT
             /\ ABORT' = ABORT
             /\ ppc' = "top" )
      ]_vars

\* after an interrupt and an empty line the task reads again, the flag kept
C17_Witness ==
    /\ readLog = <<"int", "empty">>
    /\ ppc = "read"
    /\ HAD_FIRST_INTERRUPT
    /\ ~ABORT
    /\ sent = <<>>
    /\ history = <<>>

(* ----------------------------------------------------------------------- *)
\* C18: the lines sent as Some are, in order, the non-empty lines read
\* (those given to add_history_entry), the line being sent is already in the
\* history, and pending_interrupt is false once its send has completed.
C18_Thm ==
    /\ [] /\ Len(history) = Cardinality({k \in 1..Len(readLog) :
                                            readLog[k] = "line"})
          /\ ppc = "sendLine"
                => ( /\ history # <<>>
                     /\ line = Some(Last(history))
                     /\ SomeTexts(sent) \o <<Last(history)>> = history )
          /\ ppc # "sendLine" => SomeTexts(sent) = history
          /\ \A i \in 1..Len(history) : history[i] # <<>>
    /\ [][ (ppc = "sendLine" /\ ppc' # ppc)
           => ( /\ sent' = Append(sent, line)
                /\ ~HAD_FIRST_INTERRUPT' ) ]_vars

C18_Witness ==
    /\ readLog = <<"line", "empty", "line">>
    /\ history = << <<"a">>, <<"b">> >>
    /\ sent = <<Some(<<"a">>), Some(<<"b">>)>>
    /\ ppc = "top"

(* ----------------------------------------------------------------------- *)
\* C19: on a terminal, end-of-stream clears pending_interrupt, makes the
\* task send None and stop, and leaves abort false.
C19_Thm ==
    /\ [][ /\ (isTty /\ Reads("eof"))
              => ( /\ ~HAD_FIRST_INTERRUPT'
                   /\ ppc' = "sendNoneEof"
                   /\ sent' = sent
                   /\ ABORT' = ABORT )
           /\ (ppc = "sendNoneEof" /\ ppc' # ppc)
              => ( /\ sent' = Append(sent, None)
                   /\ ppc' = "done"
                   /\ ABORT' = ABORT
                   /\ HAD_FIRST_INTERRUPT' = HAD_FIRST_INTERRUPT )
         ]_vars
    /\ []((readLog # <<>> /\ Last(readLog) = "eof")
             => (~ABORT /\ ~HAD_FIRST_INTERRUPT))

C19_Witness ==
    /\ isTty
    /\ readLog = <<"int", "eof">>
    /\ ppc = "done"
    /\ sent = <<None>>
    /\ ~ABORT
    /\ ~HAD_FIRST_INTERRUPT

(* ----------------------------------------------------------------------- *)
\* C20: with double_ctrlc off, pending_interrupt is never set and the first
\* interrupt makes the task send None, set abort and stop.
C20_Thm ==
    /\ [](~double_ctrlc
            => /\ ~HAD_FIRST_INTERRUPT
               /\ IntrRun(readLog) <= 1
               /\ (ppc = "done" /\ Last(readLog) = "int")
                     => (ABORT /\ Last(sent) = None))
    /\ [][ (~double_ctrlc /\ Reads("int"))
           => (ppc' = "sendNoneInt" /\ sent' = sent) ]_vars

C20_Witness ==
    /\ ~double_ctrlc
    /\ readLog = <<"line", "int">>
    /\ ppc = "done"
    /\ ABORT
    /\ sent = <<Some(<<"a">>), None>>

(* ------------------- the session with a lost receiver ------------------- *)
\* the session owner ends while it waits for a message, and the Receiver of
\* the handoff channel is dropped with whatever the channel still holds
S_ReceiverDropped ==
    /\ cpc = "recv"
    /\ cpc' = "gone"
    /\ chan' = <<>>
    /\ UNCHANGED <<cfgvars, pvars, nvars, ABORT, rlLock, print_buffer,
                   prompt, got_first_success, ret, cur, items, out,
                   nlPrinted, finErr, xportErr, started, ended, result,
                   outcome, is_running, prompts>>

DropNext ==
    \/ LiveNext
    \/ S_ReceiverDropped

SpecDrop == Init /\ [][DropNext]_vars

\* the input task is at one of its sends
AtSend == ppc \in {"sendLine", "sendNoneInt", "sendNoneEof", "sendNoneErr"}

\* C21: a send attempted after the receiver is gone ends the input task with
\* a failure: nothing is enqueued, pending_interrupt and abort keep their
\* values, and the failed task reads no further line and sends nothing more.
C21_Thm ==
    /\ [][ /\ (AtSend /\ ReceiverGone /\ ppc' # ppc)
              => ( /\ ppc' = "failed"
                   /\ sent' = sent
                   /\ chan' = chan
                   /\ HAD_FIRST_INTERRUPT' = HAD_FIRST_INTERRUPT
                   /\ ABORT' = ABORT
                   /\ readLog' = readLog )
           /\ ppc = "failed"
              => ( /\ ppc' = "failed"
                   /\ readLog' = readLog
                   /\ sent' = sent
                   /\ ABORT' = ABORT
                   /\ HAD_FIRST_INTERRUPT' = HAD_FIRST_INTERRUPT )
         ]_vars
    /\ []((ppc = "failed" /\ ReceiverGone /\ isTty /\ Last(readLog) = "int")
             => ~ABORT)

\* the send of a line typed after one interrupt has failed: the flag is kept
C21_Witness ==
    /\ ReceiverGone
    /\ ppc = "failed"
    /\ readLog = <<"int", "line">>
    /\ HAD_FIRST_INTERRUPT
    /\ sent = <<>>
    /\ ~ABORT

(* ----------------------------------------------------------------------- *)
\* the choice visited by this step carries the finish reason stop
VisitsStop ==
    /\ cpc = "choice"
    /\ cpc' # cpc
    /\ ~ABORT
    /\ Head(cur).finish_reason = "Stop"

\* C22: a choice whose finish reason is stop ends the cycle: its content is
\* not printed, no further item is taken from the stream, and the call then
\* writes one closing newline, stores false to is_running, redraws the prompt
\* and returns Ok.
C22_Thm ==
    /\ [][ /\ VisitsStop
              => ( /\ cpc' = "after"
                   /\ out' = out
                   /\ items' = items
                   /\ ret' = ret
                   /\ nlPrinted' = nlPrinted
                   /\ prompts' = prompts
                   /\ got_first_success' )
           /\ (cpc = "after" /\ got_first_success /\ cpc' # cpc)
              => ( /\ cpc' = "returned"
                   /\ out' = out
                   /\ items' = items
                   /\ nlPrinted' = 1
                   /\ ~is_running'
                   /\ prompts' = prompts + 1
                   /\ outcome' = "ok" )
         ]_vars
    /\ [](nlPrinted \in {0, 1} /\ (InCycle => nlPrinted = 0))

C22_Witness ==
    /\ cpc = "returned"
    /\ outcome = "ok"
    /\ result = <<Txt(<<X>>), Fin("Stop")>>
    /\ out = <<X>>
    /\ nlPrinted = 1
    /\ prompts = 1
    /\ ~is_running
    /\ ~ABORT

(* ----------------------------------------------------------------------- *)
\* some choice among cs carries text or the finish reason stop
CarriesTextOrStop(cs) ==
    \E i \in 1..Len(cs) : cs[i].content # <<>> \/ cs[i].finish_reason = "Stop"

\* C23: when the cycle ends, the empty notice is emitted, with an empty
\* result and no closing newline, exactly when no choice received in the
\* cycle carried text or the finish reason stop.
C23_Claim ==
    [][ (cpc = "after" /\ cpc' = "returned")
        => ( (nlPrinted' = nlPrinted /\ result' = <<>>)
               <=> ~CarriesTextOrStop(Flatten(ret)) ) ]_vars

(* ----------------------------------------------------------------------- *)
\* C24: the value returned with Ok is the sequence of the choices of every
\* completion received in the cycle, in arrival order: each received
\* completion is appended to ret when it arrives, ret is otherwise left
\* alone, also when an error is reported or abort is seen, and the return
\* flattens ret.
C24_Thm ==
    [][ /\ (cpc = "next" /\ items' = items + 1)
           => \/ /\ xportErr' /\ cpc' = "loopTop" /\ ret' = ret
              \/ /\ ret' = Append(ret, cur')
                 /\ cur' \in Completions
        /\ (InCycle /\ items' = items) => ret' = ret \/ cpc' = "returned"
        /\ (cpc = "after" /\ cpc' = "returned")
           => (result' = Flatten(ret) /\ outcome' = "ok")
      ]_vars

C24_Witness ==
    /\ cpc = "returned"
    /\ xportErr
    /\ items = 2
    /\ outcome = "ok"
    /\ result = <<Txt(<<X>>), Txt(<<N>>)>>
    /\ out = <<X, N>>

EndsWithSingleBackslash(text) ==
    /\ EndsWithBackslash(text)
    /\ (Len(text) = 1 \/ text[Len(text) - 1] # BS)

\* C26: after every call of the normalizer its buffer is non-empty exactly
\* when the fragment just processed ended with a single backslash; a fragment
\* ending in two or more backslashes is not buffered.
C26_Claim ==
    nIn # <<>> =>
        (print_buffer # <<>> <=> EndsWithSingleBackslash(Last(nIn)))

(* ----------------------------------------------------------------------- *)
\* s contains a backslash immediately followed by n
ContainsBsN(s) == \E i \in 1..(Len(s) - 1) : s[i] = BS /\ s[i + 1] = N

\* C27: no string emitted by the normalizer contains backslash followed by n.
C27_Claim == \A i \in 1..Len(nOut) : ~ContainsBsN(nOut[i])

(* ----------------------------------------------------------------------- *)
\* None is among the messages whose send has completed
NoneSent == \E i \in 1..Len(sent) : sent[i] = None

\* C28: abort is true only after the send of None has completed: it is
\* stored by the step that follows that send, so while the task waits at the
\* send of None behind a full channel, abort is still false.
C28_Thm ==
    /\ [] /\ ABORT => (NoneSent /\ Last(sent) = None)
          /\ ppc = "sendNoneInt" => ~ABORT
          /\ (ppc = "sendNoneInt" /\ Len(chan) = ChannelCapacity)
                => (~NoneSent /\ Head(chan) # None)
    /\ [][ (ABORT' # ABORT)
           => ( /\ ppc = "storeAbort"
                /\ ABORT'
                /\ sent' = sent
                /\ Last(sent) = None ) ]_vars

\* the second interrupt was read while the line before it is still queued
C28_Witness ==
    /\ double_ctrlc
    /\ readLog = <<"line", "int", "int">>
    /\ ppc = "sendNoneInt"
    /\ chan = <<Some(<<"a">>)>>
    /\ sent = <<Some(<<"a">>)>>
    /\ ~ABORT

(* ----------------------------------------------------------------------- *)
\* C29: whenever request() has returned Ok, is_running is false, whichever
\* way the cycle ended; a call that fails before the stream exists leaves
\* is_running as it found it.
C29_Thm ==
    /\ []((cpc = "returned" /\ outcome = "ok") => ~is_running)
    /\ [][ /\ (InCycle /\ cpc' = "returned")
              => (cpc = "after" /\ ~is_running' /\ outcome' = "ok")
           /\ (cpc = "create" /\ cpc' = "returned")
              => (is_running' = is_running /\ outcome' = "err")
           /\ (cpc = "create" /\ cpc' = "loopTop") => is_running'
         ]_vars

\* the cycle was ended by abort with the flag still true until the return
C29_Witness ==
    /\ cpc = "returned"
    /\ outcome = "ok"
    /\ ABORT
    /\ items = 1
    /\ result = <<Txt(<<X>>), Txt(<<N>>)>>
    /\ out = <<X>>
    /\ ~finErr
    /\ ~xportErr
    /\ ~is_running

====
